---- MODULE Spec2Model ----
(***************************************************************************)
(* vLLM-Ray-Bench: the configuration resolver and validator                *)
(* (vllm_cluster/config) and the cluster lifecycle manager                 *)
(* (vllm_cluster/core/cluster.py).                                         *)
(*                                                                         *)
(* Two specifications share the variables:                                 *)
(*   SpecConfig  ConfigManager.load_config, ConfigValidator.validate and   *)
(*               ConfigManager.validate_config applied to bounded inputs;  *)
(*   Spec        one ClusterManager driven by a caller and its environment *)
(*               (the Ray runtime, the launched vLLM process, the clock).  *)
(*                                                                         *)
(* Encodings.  Optional[T] is a sequence: <<>> is None, <<v>> is v.        *)
(* An IP address is the tuple of the integers between its dots; a memory   *)
(* string "<n>GB" is the integer n and MalformedMemory is any string the   *)
(* pattern ^\d+GB$ rejects; gpu_memory_utilization is in percent.          *)
(***************************************************************************)
EXTENDS Integers, Sequences, FiniteSets, TLC

VARIABLES
    raw,                 \* ConfigManager: the ClusterConfig built by _parse_config
    config,              \* ConfigManager._config / ClusterManager.config (<<>> = None)
    resolver_log,        \* logger.warning records of the resolver
    errors,              \* ConfigValidator.errors
    warnings,            \* ConfigValidator.warnings
    verdict,             \* return value of the last ConfigValidator.validate
    issues,              \* return value of the last ConfigManager.validate_config
    called,              \* the configuration operations the caller has invoked
                         \* ("validate_again": validate more than once)
    service_handle,      \* ClusterManager.service_handle (<<>> = None)
    cluster_initialized, \* ClusterManager._cluster_initialized
    service_process,     \* ClusterManager.service_process: 0 = attribute not set, k = k-th Popen
    running,             \* the launched vLLM processes that have not exited
    ray_initialized,     \* ray.is_initialized()
    ray_nodes,           \* len(ray.nodes())
    ray_gpus,            \* ray.cluster_resources()['GPU']
    pc,                  \* where the caller of the ClusterManager is
    elapsed,             \* time.time() - start_time of the poll loop in progress
    pending,             \* scale_cluster: the node records not yet appended
    scale_call,          \* the argument, the configuration and the manager's flags at the
                         \* call of scale_cluster,
                         \* until another method is called (<<>> otherwise)
    op_log,              \* warnings and errors logged by the current or last operation,
                         \* with the class of the exception an error message carries
    ret,                 \* the operation that returned last, if none was called since
    shutdown_completed   \* history: a shutdown() of this manager has run to its end

cfgvars == <<raw, config, resolver_log, errors, warnings, verdict, issues, called>>
mgrvars == <<service_handle, cluster_initialized, service_process, running,
             ray_initialized, ray_nodes, ray_gpus, pc, elapsed, pending,
             scale_call, op_log, ret, shutdown_completed>>
vars == <<cfgvars, mgrvars>>

(***************************************************************************)
(* Bounds of the model.                                                    *)
(***************************************************************************)
MaxWorkers == 2          \* workers in a configuration file
MaxClusterWorkers == 2   \* workers of a ClusterManager, scaled ones included
MaxNewNodes == 2         \* node records in one scale_cluster call
MaxDeploys == 2          \* Popen calls of one ClusterManager
MaxRayNodes == 2         \* nodes the Ray cluster can have

(***************************************************************************)
(* Data: NodeConfig and ClusterConfig.                                     *)
(***************************************************************************)
None == <<>>
Some(v) == <<v>>
IsNone(x) == x = <<>>
Val(x) == x[1]
\* Python truthiness of an Optional[int]: None and 0 are false
Truthy(x) == x # <<>> /\ x[1] # 0

MalformedMemory == 0 - 1

NodeConfig(ip, gpus, cpus, memory, port) ==
    [ip |-> ip, gpus |-> gpus, cpus |-> cpus, memory |-> memory, port |-> port]

DefaultName == <<"v", "l", "l", "m", "-", "c", "l", "u", "s", "t", "e", "r">>

ClusterConfig ==
    [cluster_name |-> DefaultName,
     max_concurrent_requests |-> 32,
     model_name |-> "Qwen/Qwen3-32B",
     max_model_len |-> 32768,
     gpu_memory_utilization |-> 80,
     swap_space |-> 8,
     tensor_parallel_size |-> None,
     pipeline_parallel_size |-> None,
     distributed_strategy |-> "auto",
     head_node |-> None,
     worker_nodes |-> <<>>,
     service_port |-> 8000,
     max_num_seqs |-> 16,
     use_default_nccl |-> TRUE,
     nccl_custom_env |-> <<>>]

RECURSIVE SumGpus(_)
SumGpus(nodes) ==
    IF nodes = <<>> THEN 0 ELSE nodes[1].gpus + SumGpus(Tail(nodes))

\* head + workers, as every caller computes it (the head must exist)
TotalNodes(c) == 1 + Len(c.worker_nodes)
TotalGpus(c) == Val(c.head_node).gpus + SumGpus(c.worker_nodes)

(***************************************************************************)
(* ConfigManager: the resolver.                                            *)
(***************************************************************************)
\* mutant: the GPUs are not divided among the nodes
CalculateOptimalParallelismNoDiv(total_nodes, total_gpus) ==
    [pp |-> total_nodes, tp |-> total_gpus, warned |-> total_nodes * total_gpus # total_gpus]

\* _calculate_optimal_parallelism: pp, tp and whether the warning was logged
CalculateOptimalParallelism(total_nodes, total_gpus) ==
    LET gpus_per_node == total_gpus \div total_nodes
        pp_size == total_nodes
        tp_first == gpus_per_node
        mismatch == pp_size * tp_first # total_gpus
        tp_size == IF mismatch THEN total_gpus \div pp_size ELSE tp_first
    IN  [pp |-> pp_size, tp |-> tp_size, warned |-> mismatch]

\* the record logged by logger.warning("Non-uniform GPU distribution detected...")
NonUniformLog(r, total_gpus) ==
    [msg |-> "Non-uniform GPU distribution detected", role |-> "", idx |-> 0,
     args |-> <<r.pp, total_gpus \div r.pp, total_gpus>>]

\* mutant: both fields are assigned whether they were set or not
AutoConfigureDistributedOverwrite(c) ==
    IF IsNone(c) \/ IsNone(c.head_node)
    THEN c
    ELSE LET r == CalculateOptimalParallelism(TotalNodes(c), TotalGpus(c))
         IN  [c EXCEPT !.tensor_parallel_size = Some(r.tp),
                       !.pipeline_parallel_size = Some(r.pp)]

\* _auto_configure_distributed: the configuration it leaves in self._config
AutoConfigureDistributed(c) ==
    IF IsNone(c) \/ IsNone(c.head_node)
    THEN c
    ELSE LET r == CalculateOptimalParallelism(TotalNodes(c), TotalGpus(c))
             c1 == IF IsNone(c.tensor_parallel_size)
                   THEN [c EXCEPT !.tensor_parallel_size = Some(r.tp)]
                   ELSE c
         IN  IF IsNone(c1.pipeline_parallel_size)
             THEN [c1 EXCEPT !.pipeline_parallel_size = Some(r.pp)]
             ELSE c1

\* what _auto_configure_distributed adds to the log
AutoConfigureLog(c) ==
    IF IsNone(c) \/ IsNone(c.head_node)
    THEN <<>>
    ELSE LET r == CalculateOptimalParallelism(TotalNodes(c), TotalGpus(c))
         IN  IF r.warned THEN <<NonUniformLog(r, TotalGpus(c))>> ELSE <<>>

\* mutant: the resolver is never run
LoadedConfigNoResolve(parsed) == parsed

\* load_config after _parse_config: the resolver runs under "auto" only
LoadedConfig(parsed) ==
    IF parsed.distributed_strategy = "auto"
    THEN AutoConfigureDistributed(parsed)
    ELSE parsed

LoadedLog(parsed) ==
    IF parsed.distributed_strategy = "auto" THEN AutoConfigureLog(parsed) ELSE <<>>

\* get_total_gpus: a missing head contributes nothing
GetTotalGpus(c) ==
    IF IsNone(c) THEN 0
    ELSE (IF IsNone(c.head_node) THEN 0 ELSE Val(c.head_node).gpus)
         + SumGpus(c.worker_nodes)

\* validate_config: the ordered list of issues
ValidateConfigIssues(c) ==
    IF IsNone(c) THEN <<[msg |-> "Configuration not loaded", role |-> "", idx |-> 0, args |-> <<>>]>>
    ELSE
      (IF IsNone(c.head_node)
       THEN <<[msg |-> "Head node configuration missing", role |-> "", idx |-> 0, args |-> <<>>]>>
       ELSE <<>>)
      \o
      (IF Truthy(c.tensor_parallel_size) /\ Truthy(c.pipeline_parallel_size)
       THEN LET expected_gpus == Val(c.tensor_parallel_size) * Val(c.pipeline_parallel_size)
                actual_gpus == GetTotalGpus(c)
            IN  IF expected_gpus # actual_gpus
                THEN <<[msg |-> "GPU count mismatch", role |-> "", idx |-> 0,
                        args |-> <<Val(c.pipeline_parallel_size), Val(c.tensor_parallel_size),
                                   expected_gpus, actual_gpus>>]>>
                ELSE <<>>
       ELSE <<>>)
      \o
      (IF c.model_name = ""
       THEN <<[msg |-> "Model name not specified", role |-> "", idx |-> 0, args |-> <<>>]>>
       ELSE <<>>)

(***************************************************************************)
(* ConfigValidator.  A finding is a record; f is the pair of lists         *)
(* (errors, warnings) a check appends to.                                  *)
(***************************************************************************)
Finding(msg, role, idx, args) == [msg |-> msg, role |-> role, idx |-> idx, args |-> args]
NoFindings == [errors |-> <<>>, warnings |-> <<>>]
Err(f, x) == [f EXCEPT !.errors = Append(@, x)]
Warn(f, x) == [f EXCEPT !.warnings = Append(@, x)]

NameChars ==
    {"a", "b", "c", "d", "e", "f", "g", "h", "i", "j", "k", "l", "m", "n", "o", "p",
     "q", "r", "s", "t", "u", "v", "w", "x", "y", "z",
     "A", "B", "C", "D", "E", "F", "G", "H", "I", "J", "K", "L", "M", "N", "O", "P",
     "Q", "R", "S", "T", "U", "V", "W", "X", "Y", "Z",
     "0", "1", "2", "3", "4", "5", "6", "7", "8", "9", "-", "_"}

\* re.match(r'^[a-zA-Z0-9\-_]+$', name)
NameMatches(name) == Len(name) >= 1 /\ \A i \in 1..Len(name) : name[i] \in NameChars

ValidateClusterConfig(c, f) ==
    LET f1 == IF c.cluster_name = <<>>
              THEN Err(f, Finding("Cluster name cannot be empty", "", 0, <<>>))
              ELSE IF ~NameMatches(c.cluster_name)
              THEN Err(f, Finding("Cluster name can only contain alphanumeric characters, hyphens, and underscores", "", 0, <<>>))
              ELSE f
    IN  IF c.max_concurrent_requests <= 0
        THEN Err(f1, Finding("max_concurrent_requests must be positive", "", 0, <<>>))
        ELSE IF c.max_concurrent_requests > 1000
        THEN Warn(f1, Finding("max_concurrent_requests > 1000 may impact performance", "", 0, <<>>))
        ELSE f1

ValidateModelConfig(c, f) ==
    LET f1 == IF c.model_name = ""
              THEN Err(f, Finding("Model name cannot be empty", "", 0, <<>>))
              ELSE f
        f2 == IF c.max_model_len <= 0
              THEN Err(f1, Finding("max_model_len must be positive", "", 0, <<>>))
              ELSE IF c.max_model_len > 100000
              THEN Warn(f1, Finding("max_model_len > 100k may cause memory issues", "", 0, <<>>))
              ELSE f1
        f3 == IF ~(10 <= c.gpu_memory_utilization /\ c.gpu_memory_utilization <= 95)
              THEN Err(f2, Finding("gpu_memory_utilization must be between 0.1 and 0.95", "", 0, <<>>))
              ELSE IF c.gpu_memory_utilization > 90
              THEN Warn(f2, Finding("gpu_memory_utilization > 0.9 may cause out-of-memory errors", "", 0, <<>>))
              ELSE f2
    IN  IF c.swap_space < 0
        THEN Err(f3, Finding("swap_space cannot be negative", "", 0, <<>>))
        ELSE f3

ValidateDistributedConfig(c, f) ==
    LET f1 == IF c.distributed_strategy \notin {"auto", "manual"}
              THEN Err(f, Finding("distributed_strategy must be 'auto' or 'manual'", "", 0, <<>>))
              ELSE f
        f2 == IF c.distributed_strategy = "manual"
                 /\ (IsNone(c.tensor_parallel_size) \/ IsNone(c.pipeline_parallel_size))
              THEN Err(f1, Finding("tensor_parallel_size and pipeline_parallel_size required for manual strategy", "", 0, <<>>))
              ELSE f1
        f3 == IF ~IsNone(c.tensor_parallel_size)
              THEN (IF Val(c.tensor_parallel_size) <= 0
                    THEN Err(f2, Finding("tensor_parallel_size must be positive", "", 0, <<>>))
                    ELSE IF Val(c.tensor_parallel_size) > 8
                    THEN Warn(f2, Finding("tensor_parallel_size > 8 may not improve performance", "", 0, <<>>))
                    ELSE f2)
              ELSE f2
    IN  IF ~IsNone(c.pipeline_parallel_size) /\ Val(c.pipeline_parallel_size) <= 0
        THEN Err(f3, Finding("pipeline_parallel_size must be positive", "", 0, <<>>))
        ELSE f3

\* _is_valid_ip: four parts, each in 0..255
IsValidIp(ip) == Len(ip) = 4 /\ \A i \in 1..Len(ip) : 0 <= ip[i] /\ ip[i] <= 255

\* _validate_node_config(node, node_name); node_name is role plus index
ValidateNodeConfig(node, role, idx, f) ==
    LET f1 == IF ~IsValidIp(node.ip)
              THEN Err(f, Finding("Invalid IP address", role, idx, <<>>))
              ELSE f
        f2 == IF node.gpus <= 0
              THEN Err(f1, Finding("GPU count must be positive", role, idx, <<>>))
              ELSE IF node.gpus > 16
              THEN Warn(f1, Finding("GPUs is unusually high", role, idx, <<node.gpus>>))
              ELSE f1
        f3 == IF node.cpus <= 0
              THEN Err(f2, Finding("CPU count must be positive", role, idx, <<>>))
              ELSE IF node.cpus > 128
              THEN Warn(f2, Finding("CPUs is unusually high", role, idx, <<node.cpus>>))
              ELSE f2
        f4 == IF node.memory = MalformedMemory
              THEN Err(f3, Finding("Memory must be in format 'XXXGB'", role, idx, <<>>))
              ELSE IF node.memory < 32
              THEN Warn(f3, Finding("GB memory may be insufficient for large models", role, idx, <<node.memory>>))
              ELSE IF node.memory > 2048
              THEN Warn(f3, Finding("GB memory is unusually high", role, idx, <<node.memory>>))
              ELSE f3
    IN  IF ~IsNone(node.port) /\ ~(1024 <= Val(node.port) /\ Val(node.port) <= 65535)
        THEN Err(f4, Finding("Port must be between 1024 and 65535", role, idx, <<>>))
        ELSE f4

\* the loop over enumerate(config.worker_nodes), from index i (1-based here)
RECURSIVE ValidateWorkers(_, _, _)
ValidateWorkers(workers, i, f) ==
    IF i > Len(workers) THEN f
    ELSE ValidateWorkers(workers, i + 1, ValidateNodeConfig(workers[i], "worker", i - 1, f))

AllIps(c) == <<Val(c.head_node).ip>> \o [i \in 1..Len(c.worker_nodes) |-> c.worker_nodes[i].ip]
SeqToSet(s) == {s[i] : i \in 1..Len(s)}

GpuMismatchFinding(total_gpus, pp, tp, expected_gpus) ==
    Finding("Total GPUs doesn't match PP * TP", "", 0, <<total_gpus, pp, tp, expected_gpus>>)

\* mutant: the total GPU count is not compared with PP * TP
ValidateNodesConfigNoGpuCheck(c, f) ==
    IF IsNone(c.head_node)
    THEN Err(f, Finding("Head node configuration is required", "", 0, <<>>))
    ELSE
      LET f1 == ValidateNodeConfig(Val(c.head_node), "head", 0, f)
          f2 == IF c.worker_nodes = <<>>
                THEN Warn(f1, Finding("No worker nodes configured - running single-node cluster", "", 0, <<>>))
                ELSE ValidateWorkers(c.worker_nodes, 1, f1)
          all_ips == AllIps(c)
      IN  IF Len(all_ips) # Cardinality(SeqToSet(all_ips))
          THEN Err(f2, Finding("Duplicate IP addresses found in node configurations", "", 0, <<>>))
          ELSE f2

ValidateNodesConfig(c, f) ==
    IF IsNone(c.head_node)
    THEN Err(f, Finding("Head node configuration is required", "", 0, <<>>))
    ELSE
      LET f1 == ValidateNodeConfig(Val(c.head_node), "head", 0, f)
          f2 == IF c.worker_nodes = <<>>
                THEN Warn(f1, Finding("No worker nodes configured - running single-node cluster", "", 0, <<>>))
                ELSE ValidateWorkers(c.worker_nodes, 1, f1)
          all_ips == AllIps(c)
          f3 == IF Len(all_ips) # Cardinality(SeqToSet(all_ips))
                THEN Err(f2, Finding("Duplicate IP addresses found in node configurations", "", 0, <<>>))
                ELSE f2
          total_gpus == TotalGpus(c)
      IN  IF Truthy(c.tensor_parallel_size) /\ Truthy(c.pipeline_parallel_size)
          THEN LET expected_gpus == Val(c.tensor_parallel_size) * Val(c.pipeline_parallel_size)
               IN  IF total_gpus # expected_gpus
                   THEN Err(f3, GpuMismatchFinding(total_gpus, Val(c.pipeline_parallel_size),
                                                   Val(c.tensor_parallel_size), expected_gpus))
                   ELSE f3
          ELSE f3

ValidateServiceConfig(c, f) ==
    LET f1 == IF ~(1024 <= c.service_port /\ c.service_port <= 65535)
              THEN Err(f, Finding("service_port must be between 1024 and 65535", "", 0, <<>>))
              ELSE f
    IN  IF c.max_num_seqs <= 0
        THEN Err(f1, Finding("max_num_seqs must be positive", "", 0, <<>>))
        ELSE IF c.max_num_seqs > 256
        THEN Warn(f1, Finding("max_num_seqs > 256 may impact memory usage", "", 0, <<>>))
        ELSE f1

\* nccl_custom_env is the list of its keys, each <<first five characters, rest>>
RECURSIVE ValidateNcclKeys(_, _, _)
ValidateNcclKeys(keys, i, f) ==
    IF i > Len(keys) THEN f
    ELSE ValidateNcclKeys(keys, i + 1,
            IF keys[i][1] # "NCCL_"
            THEN Warn(f, Finding("Non-NCCL environment variable in nccl_custom_env", "", i - 1, <<>>))
            ELSE f)

ValidateNetworkConfig(c, f) ==
    LET f1 == IF ~c.use_default_nccl /\ c.nccl_custom_env = <<>>
              THEN Warn(f, Finding("Custom NCCL enabled but no custom environment variables provided", "", 0, <<>>))
              ELSE f
    IN  ValidateNcclKeys(c.nccl_custom_env, 1, f1)

\* mutant: the lists of the previous call are not reset
ValidateFindingsCarryOver(c) ==
    ValidateNetworkConfig(c,
      ValidateServiceConfig(c,
        ValidateNodesConfig(c,
          ValidateDistributedConfig(c,
            ValidateModelConfig(c,
              ValidateClusterConfig(c, [errors |-> errors, warnings |-> warnings]))))))

\* validate: both lists are reset, then the six checks run in order
ValidateFindings(c) ==
    ValidateNetworkConfig(c,
      ValidateServiceConfig(c,
        ValidateNodesConfig(c,
          ValidateDistributedConfig(c,
            ValidateModelConfig(c,
              ValidateClusterConfig(c, NoFindings))))))

\* mutant: a warning makes the verdict false as well
ValidateVerdictStrict(f) == Len(f.errors) = 0 /\ Len(f.warnings) = 0

\* validate: return len(self.errors) == 0
ValidateVerdict(f) == Len(f.errors) = 0

(***************************************************************************)
(* Inputs of the configuration specification: what _parse_config can build *)
(* from a YAML file with up to MaxWorkers workers.                         *)
(***************************************************************************)
HeadIps == {<<10, 0, 0, 1>>}
WorkerIps == {<<10, 0, 0, 2>>, <<10, 0, 0, 3>>}
GpuCounts == {0, 2, 4, 8}

\* a worker as _parse_config builds it (no port); the last one is broken throughout
WorkerSet ==
    {NodeConfig(ip, g, 32, 320, None) : ip \in WorkerIps, g \in GpuCounts}
    \cup {NodeConfig(<<10, 0, 0, 256>>, 4, 0, MalformedMemory, None)}

\* a head as _parse_config builds it (port 6379 unless given)
HeadSet ==
    {NodeConfig(ip, g, 32, 320, Some(6379)) : ip \in HeadIps, g \in GpuCounts}
    \cup {NodeConfig(<<10, 0, 0, 256>>, 4, 0, MalformedMemory, Some(80))}

RECURSIVE SeqsUpTo(_, _)
SeqsUpTo(S, n) ==
    IF n = 0 THEN {<<>>}
    ELSE LET shorter == SeqsUpTo(S, n - 1)
         IN  shorter \cup {Append(q, x) : q \in shorter, x \in S}

TpInputs == {None, Some(0), Some(4)}
PpInputs == {None, Some(2), Some(3)}

RawConfigs ==
    {[ClusterConfig EXCEPT !.distributed_strategy = st,
                           !.tensor_parallel_size = tp,
                           !.pipeline_parallel_size = pp,
                           !.head_node = h,
                           !.worker_nodes = ws] :
        st \in {"auto", "manual"}, tp \in TpInputs, pp \in PpInputs,
        h \in {None} \cup {Some(n) : n \in HeadSet},
        ws \in SeqsUpTo(WorkerSet, MaxWorkers)}

\* ret while no operation has returned since the last call: op is the method,
\* ok its value, ready what _wait_for_service_ready returned to deploy_service,
\* again whether the operation that returned before it was the same method
NoRet == [op |-> "none", ok |-> FALSE, ready |-> "none", again |-> FALSE]

\* mutant: the constructor stores a service handle
MgrConstructedWithHandle ==
    /\ service_handle = Some("handle")
    /\ cluster_initialized = FALSE
    /\ service_process = 0
    /\ running = {}
    /\ ray_initialized = FALSE
    /\ ray_nodes = 0
    /\ ray_gpus = 0
    /\ pc = "idle"
    /\ elapsed = 0
    /\ pending = <<>>
    /\ scale_call = None
    /\ op_log = {}
    /\ ret = NoRet
    /\ shutdown_completed = FALSE

\* ClusterManager.__init__ (and the world before it has done anything)
MgrConstructed ==
    /\ service_handle = None
    /\ cluster_initialized = FALSE
    /\ service_process = 0
    /\ running = {}
    /\ ray_initialized = FALSE
    /\ ray_nodes = 0
    /\ ray_gpus = 0
    /\ pc = "idle"
    /\ elapsed = 0
    /\ pending = <<>>
    /\ scale_call = None
    /\ op_log = {}
    /\ ret = NoRet
    /\ shutdown_completed = FALSE

(***************************************************************************)
(* SpecConfig: load_config, validate and validate_config on one            *)
(* ConfigManager and one ConfigValidator.                                  *)
(***************************************************************************)
InitConfig ==
    /\ raw \in RawConfigs
    /\ config = None
    /\ resolver_log = <<>>
    /\ errors = <<>>
    /\ warnings = <<>>
    /\ verdict = "none"
    /\ issues = <<>>
    /\ called = {}
    /\ MgrConstructed

\* ConfigManager.load_config (the file parses to raw)
LoadConfig ==
    /\ "load_config" \notin called
    /\ config' = Some(LoadedConfig(raw))
    /\ resolver_log' = resolver_log \o LoadedLog(raw)
    /\ called' = called \cup {"load_config"}
    /\ UNCHANGED <<raw, errors, warnings, verdict, issues>>
    /\ UNCHANGED mgrvars

\* ConfigValidator.validate(config) on the loaded configuration
Validate ==
    /\ ~IsNone(config)
    /\ LET f == ValidateFindings(Val(config))
       IN  /\ errors' = f.errors
           /\ warnings' = f.warnings
           /\ verdict' = IF ValidateVerdict(f) THEN "valid" ELSE "invalid"
    /\ called' = called \cup {"validate"}
                         \cup (IF "validate" \in called THEN {"validate_again"} ELSE {})
    /\ UNCHANGED <<raw, config, resolver_log, issues>>
    /\ UNCHANGED mgrvars

\* ConfigManager.validate_config()
ValidateConfig ==
    /\ ~IsNone(config)
    /\ issues' = ValidateConfigIssues(IF IsNone(config) THEN None ELSE Val(config))
    /\ called' = called \cup {"validate_config"}
    /\ UNCHANGED <<raw, config, resolver_log, errors, warnings, verdict>>
    /\ UNCHANGED mgrvars

NextConfig == LoadConfig \/ Validate \/ ValidateConfig

SpecConfig == InitConfig /\ [][NextConfig]_vars

(***************************************************************************)
(* ClusterManager.  Every public method is entered from pc = "idle" and    *)
(* returns there; a poll loop takes one step per iteration.  Every call    *)
(* into Ray, subprocess or requests can raise.                             *)
(***************************************************************************)
WaitNodesTimeout == 300
NodePollInterval == 10
ServiceReadyTimeout == 600
ServicePollInterval == 30

Outcome == {"ok", "raise"}

\* mutant: the loop condition never becomes false
WithinTimeoutAlways(t, timeout) == TRUE

\* while time.time() - start_time < timeout
WithinTimeout(t, timeout) == t < timeout

ManagerHead == NodeConfig(<<10, 0, 0, 1>>, 8, 32, 320, Some(6379))
ManagerWorker == NodeConfig(<<10, 0, 0, 2>>, 8, 32, 320, None)

\* the configurations a ClusterManager is constructed with: loaded, not
\* necessarily validated (the scale, status and shutdown commands do not validate)
ManagerRawConfigs ==
    {[ClusterConfig EXCEPT !.distributed_strategy = x[1],
                           !.tensor_parallel_size = x[2],
                           !.pipeline_parallel_size = x[3],
                           !.head_node = x[4],
                           !.worker_nodes = x[5]] :
        x \in {<<"auto", None, None, Some(ManagerHead), <<>>>>,
               <<"auto", Some(4), None, Some(ManagerHead), <<>>>>,
               <<"manual", Some(8), Some(2), Some(ManagerHead), <<ManagerWorker>>>>,
               <<"auto", None, None, None, <<>>>>}}

\* node_data dictionaries of scale_cluster: a missing key is None
NodeData(ip, gpus) == [ip |-> Some(ip), gpus |-> gpus, cpus |-> Some(32), memory |-> Some(320)]
NewNodeRecords ==
    {NodeData(<<10, 0, 0, 3>>, Some(8)),      \* a new node like the others
     NodeData(<<10, 0, 0, 1>>, Some(0)),      \* the head's address, no GPU
     NodeData(<<10, 0, 0, 5>>, None)}         \* no "gpus" key
NewNodeLists == SeqsUpTo(NewNodeRecords, MaxNewNodes) \ {<<>>}

Init ==
    /\ raw \in ManagerRawConfigs
    /\ config = Some(LoadedConfig(raw))
    /\ resolver_log = LoadedLog(raw)
    /\ errors = <<>>
    /\ warnings = <<>>
    /\ verdict = "none"
    /\ issues = <<>>
    /\ called = {"load_config"}
    /\ MgrConstructed

\* a method returns (or its except clause does) with value ok
Return(op, ok, wait_ret) ==
    /\ ret' = [op |-> op, ok |-> ok, ready |-> wait_ret, again |-> ret.op = op]
    /\ pc' = "idle"
    /\ elapsed' = 0

\* initialize_ray_cluster up to the first iteration of _wait_for_nodes
InitializeRayCluster ==
    /\ pc = "idle"
    /\ scale_call' = None
    /\ \E connect \in Outcome :
         IF ~ray_initialized /\ connect = "raise"
         THEN \* ray.init(address="auto") and ray.init() both raise
              /\ Return("initialize_ray_cluster", FALSE, "none")
              /\ op_log' = {"Failed to initialize Ray cluster", "RayError"}
              /\ UNCHANGED ray_initialized
         ELSE /\ ray_initialized' = TRUE
              /\ IF IsNone(Val(config).head_node)
                 THEN \* self.config.head_node.gpus raises in _wait_for_nodes
                      /\ Return("initialize_ray_cluster", FALSE, "none")
                      /\ op_log' = {"Failed to initialize Ray cluster", "AttributeError"}
                 ELSE /\ pc' = "init_wait"
                      /\ elapsed' = 0
                      /\ op_log' = {}
                      /\ ret' = NoRet
    /\ UNCHANGED <<cfgvars, service_handle, cluster_initialized, service_process, running,
                   ray_nodes, ray_gpus, pending>>
    /\ UNCHANGED shutdown_completed

NodesMissing(c) == ray_nodes < TotalNodes(c) \/ ray_gpus < TotalGpus(c)

\* mutant: the timeout of the node wait is an error of its caller
WaitNodesReturnedStrict(logged, verify) ==
    IF pc = "init_wait"
    THEN IF verify = "raise" \/ "Timeout waiting for nodes" \in logged
         THEN /\ Return("initialize_ray_cluster", FALSE, "none")
              /\ op_log' = logged \cup {"Failed to initialize Ray cluster"}
              /\ UNCHANGED cluster_initialized
         ELSE /\ cluster_initialized' = TRUE
              /\ Return("initialize_ray_cluster", TRUE, "none")
              /\ op_log' = logged
    ELSE /\ Return("scale_cluster", TRUE, "none")
         /\ op_log' = logged
         /\ UNCHANGED cluster_initialized

\* _wait_for_nodes has returned to its caller, which finishes
WaitNodesReturned(logged, verify) ==
    IF pc = "init_wait"
    THEN IF verify = "raise"
         THEN \* ray.cluster_resources() after the wait raises
              /\ Return("initialize_ray_cluster", FALSE, "none")
              /\ op_log' = logged \cup {"Failed to initialize Ray cluster", "RayError"}
              /\ UNCHANGED cluster_initialized
         ELSE /\ cluster_initialized' = TRUE
              /\ Return("initialize_ray_cluster", TRUE, "none")
              /\ op_log' = logged
    ELSE /\ Return("scale_cluster", TRUE, "none")
         /\ op_log' = logged
         /\ UNCHANGED cluster_initialized

\* one iteration of the loop of _wait_for_nodes, or its final check
WaitNodesPoll ==
    /\ pc \in {"init_wait", "scale_wait"}
    /\ \E probe \in Outcome, verify \in Outcome :
         /\ probe = "ok" => ray_initialized
         /\ verify = "ok" => ray_initialized
         /\ IF probe = "raise"
            THEN \* ray.cluster_resources() or ray.nodes() raises: no handler in the loop
                 /\ Return(IF pc = "init_wait" THEN "initialize_ray_cluster" ELSE "scale_cluster",
                           FALSE, "none")
                 /\ op_log' = op_log \cup {IF pc = "init_wait" THEN "Failed to initialize Ray cluster"
                                           ELSE "Failed to scale cluster", "RayError"}
                 /\ UNCHANGED cluster_initialized
            ELSE IF WithinTimeout(elapsed, WaitNodesTimeout)
            THEN IF ~NodesMissing(Val(config))
                 THEN WaitNodesReturned(op_log, verify)
                 ELSE \* time.sleep(10)
                      /\ elapsed' = elapsed + NodePollInterval
                      /\ UNCHANGED <<pc, ret, op_log, cluster_initialized>>
            ELSE IF NodesMissing(Val(config))
                 THEN WaitNodesReturned(op_log \cup {"Timeout waiting for nodes"}, verify)
                 ELSE WaitNodesReturned(op_log, verify)
    /\ UNCHANGED <<cfgvars, service_handle, service_process, running,
                   ray_initialized, ray_nodes, ray_gpus, pending, scale_call>>
    /\ UNCHANGED shutdown_completed

\* mutant: deploy_service does not look at _cluster_initialized
DeployServiceNoGuard ==
    /\ pc = "idle"
    /\ scale_call' = None
    /\ \E popen \in Outcome :
         /\ popen = "ok" => service_process < MaxDeploys
         /\ IF popen = "raise"
            THEN /\ Return("deploy_service", FALSE, "none")
                 /\ op_log' = {"Failed to deploy service", "OSError"}
                 /\ UNCHANGED <<service_process, running>>
            ELSE /\ service_process' = service_process + 1
                 /\ running' = running \cup {service_process + 1}
                 /\ pc' = "deploy_wait"
                 /\ elapsed' = 0
                 /\ op_log' = {}
                 /\ ret' = NoRet
    /\ UNCHANGED <<cfgvars, service_handle, cluster_initialized, ray_initialized,
                   ray_nodes, ray_gpus, pending>>
    /\ UNCHANGED shutdown_completed

\* deploy_service up to the first iteration of _wait_for_service_ready
DeployService ==
    /\ pc = "idle"
    /\ scale_call' = None
    /\ IF ~cluster_initialized
       THEN /\ Return("deploy_service", FALSE, "none")
            /\ op_log' = {"Ray cluster not initialized"}
            /\ UNCHANGED <<service_process, running>>
       ELSE \E popen \in Outcome :
              /\ popen = "ok" => service_process < MaxDeploys
              /\ IF popen = "raise"
                 THEN /\ Return("deploy_service", FALSE, "none")
                      /\ op_log' = {"Failed to deploy service", "OSError"}
                      /\ UNCHANGED <<service_process, running>>
                 ELSE /\ service_process' = service_process + 1
                      /\ running' = running \cup {service_process + 1}
                      /\ pc' = "deploy_wait"
                      /\ elapsed' = 0
                      /\ op_log' = {}
                      /\ ret' = NoRet
    /\ UNCHANGED <<cfgvars, service_handle, cluster_initialized, ray_initialized,
                   ray_nodes, ray_gpus, pending>>
    /\ UNCHANGED shutdown_completed

\* deploy_service after _wait_for_service_ready returned wait_ret: the value is dropped
DeployReturned(wait_ret, logged) ==
    /\ op_log' = logged
    /\ Return("deploy_service", TRUE, wait_ret)

\* one iteration of the loop of _wait_for_service_ready, or its timeout;
\* the endpoint can answer 200 only while a launched process runs
ServiceReadyPoll ==
    /\ pc = "deploy_wait"
    /\ IF WithinTimeout(elapsed, ServiceReadyTimeout)
       THEN IF service_process # 0 /\ service_process \notin running
            THEN DeployReturned("false", op_log \cup {"vLLM service process has terminated"})
            ELSE \E get \in {"200", "other"} :
                   /\ get = "200" => running # {}
                   /\ IF get = "200"
                      THEN DeployReturned("true", op_log)
                      ELSE \* another status, ConnectionError or another exception; time.sleep(30)
                           /\ elapsed' = elapsed + ServicePollInterval
                           /\ UNCHANGED <<pc, ret, op_log>>
       ELSE DeployReturned("false", op_log \cup {"Service readiness timeout"})
    /\ UNCHANGED <<cfgvars, service_handle, cluster_initialized, service_process, running,
                   ray_initialized, ray_nodes, ray_gpus, pending, scale_call>>
    /\ UNCHANGED shutdown_completed

\* scale_cluster is called with new_worker_nodes
ScaleCluster(new_worker_nodes) ==
    /\ pc = "idle"
    /\ Len(Val(config).worker_nodes) + Len(new_worker_nodes) <= MaxClusterWorkers
    /\ pending' = new_worker_nodes
    /\ scale_call' = Some([config |-> Val(config), new_worker_nodes |-> new_worker_nodes,
                            initialized |-> cluster_initialized,
                            deployed |-> service_process # 0])
    /\ pc' = IF new_worker_nodes = <<>> THEN "scale_recalc" ELSE "scale_append"
    /\ op_log' = {}
    /\ ret' = NoRet
    /\ UNCHANGED <<cfgvars, service_handle, cluster_initialized, service_process, running,
                   ray_initialized, ray_nodes, ray_gpus, elapsed>>
    /\ UNCHANGED shutdown_completed

HasKeys(node_data) ==
    ~IsNone(node_data.ip) /\ ~IsNone(node_data.gpus)
    /\ ~IsNone(node_data.cpus) /\ ~IsNone(node_data.memory)

\* one iteration of "for node_data in new_worker_nodes"
ScaleAppend ==
    /\ pc = "scale_append"
    /\ pending # <<>>
    /\ LET node_data == Head(pending)
       IN  IF ~HasKeys(node_data)
           THEN \* KeyError
                /\ Return("scale_cluster", FALSE, "none")
                /\ op_log' = op_log \cup {"Failed to scale cluster", "KeyError"}
                /\ pending' = <<>>
                /\ UNCHANGED config
           ELSE /\ config' = Some([Val(config) EXCEPT !.worker_nodes =
                        Append(@, NodeConfig(Val(node_data.ip), Val(node_data.gpus),
                                             Val(node_data.cpus), Val(node_data.memory), None))])
                /\ pending' = Tail(pending)
                /\ pc' = IF Tail(pending) = <<>> THEN "scale_recalc" ELSE "scale_append"
                /\ UNCHANGED <<ret, elapsed, op_log>>
    /\ UNCHANGED <<raw, resolver_log, errors, warnings, verdict, issues, called,
                   service_handle, cluster_initialized, service_process, running,
                   ray_initialized, ray_nodes, ray_gpus, scale_call>>
    /\ UNCHANGED shutdown_completed

\* total_nodes, total_gpus and, under "auto", the assignment of pipeline_parallel_size
ScaleRecalc ==
    /\ pc = "scale_recalc"
    /\ IF IsNone(Val(config).head_node)
       THEN \* self.config.head_node.gpus raises
            /\ Return("scale_cluster", FALSE, "none")
            /\ op_log' = op_log \cup {"Failed to scale cluster", "AttributeError"}
            /\ UNCHANGED config
       ELSE IF Val(config).distributed_strategy = "auto"
       THEN /\ config' = Some([Val(config) EXCEPT !.pipeline_parallel_size =
                                                    Some(TotalNodes(Val(config)))])
            /\ pc' = "scale_tp"
            /\ UNCHANGED <<ret, elapsed, op_log>>
       ELSE /\ pc' = "scale_wait"
            /\ elapsed' = 0
            /\ UNCHANGED <<config, ret, op_log>>
    /\ UNCHANGED <<raw, resolver_log, errors, warnings, verdict, issues, called,
                   service_handle, cluster_initialized, service_process, running,
                   ray_initialized, ray_nodes, ray_gpus, pending, scale_call>>
    /\ UNCHANGED shutdown_completed

\* the assignment of tensor_parallel_size, then _wait_for_nodes starts
ScaleSetTp ==
    /\ pc = "scale_tp"
    /\ config' = Some([Val(config) EXCEPT !.tensor_parallel_size =
                         Some(TotalGpus(Val(config)) \div TotalNodes(Val(config)))])
    /\ pc' = "scale_wait"
    /\ elapsed' = 0
    /\ UNCHANGED <<raw, resolver_log, errors, warnings, verdict, issues, called,
                   service_handle, cluster_initialized, service_process, running,
                   ray_initialized, ray_nodes, ray_gpus, pending, scale_call,
                   op_log, ret>>
    /\ UNCHANGED shutdown_completed

\* the body of shutdown: one try block around both stops and the two
\* assignments; logged is what the log holds before it
Teardown(logged) ==
    \E serve_stop \in Outcome, ray_stop \in Outcome, ray_left \in BOOLEAN :
         IF ~IsNone(service_handle) /\ serve_stop = "raise"
         THEN \* serve.shutdown() raises
              /\ op_log' = logged \cup {"Error during cluster shutdown"}
              /\ UNCHANGED <<ray_initialized, cluster_initialized, service_handle,
                             shutdown_completed>>
         ELSE IF ray_initialized /\ ray_stop = "raise"
         THEN \* ray.shutdown() raises, having stopped the runtime or not
              /\ op_log' = logged \cup {"Error during cluster shutdown"}
              /\ ray_initialized' = ray_left
              /\ UNCHANGED <<cluster_initialized, service_handle, shutdown_completed>>
         ELSE /\ ray_initialized' = FALSE
              /\ cluster_initialized' = FALSE
              /\ service_handle' = None
              /\ op_log' = logged
              /\ shutdown_completed' = TRUE

\* shutdown called while no other method of the manager is running
Shutdown ==
    /\ pc = "idle"
    /\ scale_call' = None
    /\ Teardown({})
    /\ Return("shutdown", TRUE, "none")
    /\ UNCHANGED <<cfgvars, service_process, running, ray_nodes, ray_gpus, pending>>

\* shutdown called by a second caller while a method is in flight: the class
\* holds no lock, so the call runs and returns while the other method sleeps
\* in its poll loop or sits between two of its statements
ConcurrentShutdown ==
    /\ pc # "idle"
    /\ ret = NoRet          \* the second caller calls once per method in flight
    /\ Teardown(op_log)
    /\ ret' = [op |-> "shutdown", ok |-> TRUE, ready |-> "none", again |-> ret.op = "shutdown"]
    /\ UNCHANGED <<cfgvars, service_process, running, ray_nodes, ray_gpus, pending,
                   pc, elapsed, scale_call>>

(***************************************************************************)
(* The read-only methods: the set of values each can return in the         *)
(* current state (what Ray answers is not determined by the manager).      *)
(***************************************************************************)
HealthCheck ==
    IF ~IsNone(service_handle) THEN {TRUE, FALSE} ELSE {FALSE}

GetServiceMetrics ==
    IF IsNone(service_handle)
    THEN {"Service not deployed"}
    ELSE {"metrics", "Service deployment not found", "Failed to get metrics"}

TestGeneration ==
    IF IsNone(service_handle)
    THEN {"Service not deployed"}
    ELSE {"result", "Generation test failed"}

(***************************************************************************)
(* The environment: nodes join the Ray cluster, a vLLM process exits.      *)
(***************************************************************************)
JoinGpus == {0, 8}

NodeJoins ==
    /\ ray_nodes < MaxRayNodes
    /\ \E g \in JoinGpus :
         /\ ray_nodes' = ray_nodes + 1
         /\ ray_gpus' = ray_gpus + g
    /\ UNCHANGED <<cfgvars, service_handle, cluster_initialized, service_process, running,
                   ray_initialized, pc, elapsed, pending, scale_call, op_log, ret>>
    /\ UNCHANGED shutdown_completed

ProcessExits ==
    /\ \E p \in running : running' = running \ {p}
    /\ UNCHANGED <<cfgvars, service_handle, cluster_initialized, service_process,
                   ray_initialized, ray_nodes, ray_gpus, pc, elapsed, pending,
                   scale_call, op_log, ret>>
    /\ UNCHANGED shutdown_completed

Next ==
    \/ InitializeRayCluster
    \/ WaitNodesPoll
    \/ DeployService
    \/ ServiceReadyPoll
    \/ \E new_worker_nodes \in NewNodeLists : ScaleCluster(new_worker_nodes)
    \/ ScaleAppend
    \/ ScaleRecalc
    \/ ScaleSetTp
    \/ Shutdown
    \/ ConcurrentShutdown
    \/ NodeJoins
    \/ ProcessExits

Spec == Init /\ [][Next]_vars

\* the thread that runs a method keeps running: every probe returns, every
\* sleep ends, every statement of scale_cluster is followed by the next
Fairness ==
    /\ WF_vars(WaitNodesPoll)
    /\ WF_vars(ServiceReadyPoll)
    /\ WF_vars(ScaleAppend)
    /\ WF_vars(ScaleRecalc)
    /\ WF_vars(ScaleSetTp)

\* the liveness specification: one manager on a head-only "auto"
\* configuration, called by one caller at a time
InitLive == Init /\ ~IsNone(raw.head_node) /\ IsNone(raw.tensor_parallel_size)

NextLive ==
    \/ InitializeRayCluster
    \/ WaitNodesPoll
    \/ DeployService
    \/ ServiceReadyPoll
    \/ \E new_worker_nodes \in NewNodeLists : ScaleCluster(new_worker_nodes)
    \/ ScaleAppend
    \/ ScaleRecalc
    \/ ScaleSetTp
    \/ Shutdown
    \/ NodeJoins
    \/ ProcessExits

SpecLive == InitLive /\ [][NextLive]_vars /\ Fairness

(***************************************************************************)
(* Properties of the configuration resolver and validator (SpecConfig).    *)
(***************************************************************************)
Loaded == "load_config" \in called
Validated == "validate" \in called

\* the file asks for "auto", names a head node and supplies neither field
RawAutoNoExplicit ==
    /\ raw.distributed_strategy = "auto"
    /\ ~IsNone(raw.head_node)
    /\ IsNone(raw.tensor_parallel_size)
    /\ IsNone(raw.pipeline_parallel_size)

NodeGpus(c) == <<Val(c.head_node).gpus>> \o [i \in 1..Len(c.worker_nodes) |-> c.worker_nodes[i].gpus]
UniformPositive(c) ==
    \A i \in 1..Len(NodeGpus(c)) : NodeGpus(c)[i] > 0 /\ NodeGpus(c)[i] = NodeGpus(c)[1]
NonUniform(c) == \E i \in 1..Len(NodeGpus(c)) : NodeGpus(c)[i] # NodeGpus(c)[1]

PlanProduct(c) == Val(c.pipeline_parallel_size) * Val(c.tensor_parallel_size)
Reported == SeqToSet(errors) \cup SeqToSet(warnings)
HasMsg(findings, m) == \E i \in 1..Len(findings) : findings[i].msg = m

\* C5: with the same positive GPU count on every node and no explicit value,
\* load_config under "auto" leaves PP = number of nodes, TP = total GPUs divided
\* by the number of nodes, and PP * TP = total GPUs.
ThmC5 ==
    (Loaded /\ RawAutoNoExplicit /\ UniformPositive(raw)) =>
        LET c == Val(config)
        IN  /\ c.pipeline_parallel_size = Some(TotalNodes(raw))
            /\ c.tensor_parallel_size = Some(TotalGpus(raw) \div TotalNodes(raw))
            /\ Val(c.tensor_parallel_size) = Val(raw.head_node).gpus
            /\ PlanProduct(c) = TotalGpus(raw)

\* three nodes of 8 GPUs have been resolved
WitC5 ==
    /\ Loaded /\ RawAutoNoExplicit /\ UniformPositive(raw)
    /\ Len(raw.worker_nodes) = 2
    /\ TotalGpus(raw) = 24
    /\ Val(config).pipeline_parallel_size = Some(3)

OnlyTpSupplied == ~IsNone(raw.tensor_parallel_size) /\ IsNone(raw.pipeline_parallel_size)
OnlyPpSupplied == IsNone(raw.tensor_parallel_size) /\ ~IsNone(raw.pipeline_parallel_size)
Divides(known, total) == known # 0 /\ (total \div known) * known = total

\* C7 as stated: with exactly one field supplied under "auto", the other becomes
\* total GPUs / supplied value, and PP * TP = total GPUs when that divides.
CexC7 ==
    (Loaded /\ raw.distributed_strategy = "auto" /\ ~IsNone(raw.head_node)) =>
        LET c == Val(config)
            total == TotalGpus(raw)
        IN  /\ (OnlyTpSupplied /\ Divides(Val(raw.tensor_parallel_size), total)) =>
                  /\ c.pipeline_parallel_size = Some(total \div Val(raw.tensor_parallel_size))
                  /\ PlanProduct(c) = total
            /\ (OnlyPpSupplied /\ Divides(Val(raw.pipeline_parallel_size), total)) =>
                  /\ c.tensor_parallel_size = Some(total \div Val(raw.pipeline_parallel_size))
                  /\ PlanProduct(c) = total

\* C8: load_config leaves a supplied pipeline_parallel_size or
\* tensor_parallel_size as it was, under "auto" and under "manual".
ThmC8 ==
    Loaded =>
        /\ ~IsNone(raw.tensor_parallel_size) =>
              Val(config).tensor_parallel_size = raw.tensor_parallel_size
        /\ ~IsNone(raw.pipeline_parallel_size) =>
              Val(config).pipeline_parallel_size = raw.pipeline_parallel_size

\* the resolver ran, filled PP and kept the supplied TP = 4
WitC8 ==
    /\ Loaded
    /\ raw.distributed_strategy = "auto"
    /\ OnlyTpSupplied
    /\ raw.tensor_parallel_size = Some(4)
    /\ Val(config).pipeline_parallel_size = Some(2)
    /\ Val(config).tensor_parallel_size = Some(4)

\* C9 as stated: with a head node and both fields set, PP * TP # total GPUs
\* makes validate return false with the error that carries PP, TP, the product
\* and the total.
CexC9 ==
    (Validated /\ ~IsNone(Val(config).head_node)
       /\ ~IsNone(Val(config).tensor_parallel_size)
       /\ ~IsNone(Val(config).pipeline_parallel_size)
       /\ PlanProduct(Val(config)) # TotalGpus(Val(config))) =>
        LET c == Val(config)
        IN  /\ verdict = "invalid"
            /\ GpuMismatchFinding(TotalGpus(c), Val(c.pipeline_parallel_size),
                                  Val(c.tensor_parallel_size), PlanProduct(c))
                 \in SeqToSet(errors)

\* what each check reports when it is run alone on c
FindingsOf(f) == SeqToSet(f.errors) \cup SeqToSet(f.warnings)
PresentIps(c) ==
    (IF IsNone(c.head_node) THEN <<>> ELSE <<Val(c.head_node).ip>>)
    \o [i \in 1..Len(c.worker_nodes) |-> c.worker_nodes[i].ip]
StructuralCheck(c) ==
    IF IsNone(c.head_node)
    THEN {Finding("Head node configuration is required", "", 0, <<>>)}
    ELSE {}
ResourceChecks(c) ==
    (IF IsNone(c.head_node) THEN {}
     ELSE FindingsOf(ValidateNodeConfig(Val(c.head_node), "head", 0, NoFindings)))
    \cup FindingsOf(ValidateWorkers(c.worker_nodes, 1, NoFindings))
DuplicateCheck(c) ==
    IF Len(PresentIps(c)) # Cardinality(SeqToSet(PresentIps(c)))
    THEN {Finding("Duplicate IP addresses found in node configurations", "", 0, <<>>)}
    ELSE {}
ConsistencyCheck(c) ==
    IF Truthy(c.tensor_parallel_size) /\ Truthy(c.pipeline_parallel_size)
       /\ GetTotalGpus(c) # PlanProduct(c)
    THEN {GpuMismatchFinding(GetTotalGpus(c), Val(c.pipeline_parallel_size),
                             Val(c.tensor_parallel_size), PlanProduct(c))}
    ELSE {}
IndividualFindings(c) ==
    FindingsOf(ValidateClusterConfig(c, NoFindings))
    \cup FindingsOf(ValidateModelConfig(c, NoFindings))
    \cup FindingsOf(ValidateDistributedConfig(c, NoFindings))
    \cup StructuralCheck(c) \cup ResourceChecks(c) \cup DuplicateCheck(c)
    \cup ConsistencyCheck(c)
    \cup FindingsOf(ValidateServiceConfig(c, NoFindings))
    \cup FindingsOf(ValidateNetworkConfig(c, NoFindings))

\* C10 as stated: one validate call reports every finding that each check
\* would report on its own, also after the head-node check has failed.
CexC10 == Validated => IndividualFindings(Val(config)) \subseteq Reported

ValidatedAgain == "validate_again" \in called

\* C11: validate called again on the same validator and the same configuration
\* leaves the ordered error list, the ordered warning list and the verdict as the
\* call before left them: nothing is carried over or duplicated.
ThmC11 ==
    [][Validated => (errors' = errors /\ warnings' = warnings /\ verdict' = verdict)]_vars

\* a second call has returned on a configuration with an error and a warning
WitC11 == ValidatedAgain /\ errors # <<>> /\ warnings # <<>> /\ verdict = "invalid"

\* C12: validate returns True exactly when the error list is empty after the
\* call, whatever the number of warnings.
ThmC12 == Validated => (verdict = "valid" <=> errors = <<>>)

\* a valid verdict with a warning (a head-only cluster)
WitC12 == Validated /\ verdict = "valid" /\ warnings # <<>> /\ errors = <<>>

DuplicateFinding == Finding("Duplicate IP addresses found in node configurations", "", 0, <<>>)

\* C13 as stated: when two nodes (head or workers) have the same address,
\* validate returns False with the duplicate-address error, and the per-node GPU
\* checks and the parallelism checks report their findings in the same call.
CexC13 ==
    (Validated /\ DuplicateCheck(Val(config)) # {}) =>
        LET c == Val(config)
        IN  /\ verdict = "invalid"
            /\ DuplicateFinding \in SeqToSet(errors)
            /\ ResourceChecks(c) \subseteq Reported
            /\ FindingsOf(ValidateDistributedConfig(c, NoFindings)) \subseteq Reported
            /\ ConsistencyCheck(c) \subseteq Reported

HeadOnlyAuto ==
    /\ raw.distributed_strategy = "auto"
    /\ ~IsNone(raw.head_node)
    /\ raw.worker_nodes = <<>>
NoWorkersMsg == "No worker nodes configured - running single-node cluster"

\* C14: for a head without workers under "auto" the resolver computes PP = 1
\* and TP = the head's GPU count without a warning, every field it fills has
\* that value, and validate reports the missing workers as a warning, never as
\* an error.
ThmC14 ==
    (Validated /\ HeadOnlyAuto) =>
        LET c == Val(config)
            head_gpus == Val(raw.head_node).gpus
            r == CalculateOptimalParallelism(TotalNodes(raw), TotalGpus(raw))
        IN  /\ r.pp = 1 /\ r.tp = head_gpus /\ ~r.warned
            /\ IsNone(raw.pipeline_parallel_size) => c.pipeline_parallel_size = Some(1)
            /\ IsNone(raw.tensor_parallel_size) => c.tensor_parallel_size = Some(head_gpus)
            /\ HasMsg(warnings, NoWorkersMsg)
            /\ ~HasMsg(errors, NoWorkersMsg)
            /\ \A i \in 1..Len(errors) : errors[i].role # "worker"

\* a head with 8 GPUs alone: PP = 1, TP = 8, valid, with the one warning
WitC14 ==
    /\ Validated /\ HeadOnlyAuto /\ RawAutoNoExplicit
    /\ Val(raw.head_node).gpus = 8
    /\ Val(config).pipeline_parallel_size = Some(1)
    /\ Val(config).tensor_parallel_size = Some(8)
    /\ verdict = "valid"
    /\ warnings = <<Finding(NoWorkersMsg, "", 0, <<>>)>>

(***************************************************************************)
(* Properties of the ClusterManager (Spec).                                *)
(***************************************************************************)
Returned(op) == pc = "idle" /\ ret.op = op

\* C1 as stated: deploy_service returns True only if the health endpoint
\* answered 200 before the readiness timeout; a process exit or the timeout
\* makes it return False.
CexC1 == (Returned("deploy_service") /\ ret.ok) => ret.ready = "true"

\* the configuration a scale request asks for: the records appended to the
\* workers and, under "auto", the plan recomputed for the merged topology
RECURSIVE AsNodes(_)
AsNodes(records) ==
    IF records = <<>> THEN <<>>
    ELSE <<NodeConfig(Val(Head(records).ip), Val(Head(records).gpus),
                      Val(Head(records).cpus), Val(Head(records).memory), None)>>
         \o AsNodes(Tail(records))
Prospective(call) ==
    LET merged == [call.config EXCEPT !.worker_nodes = @ \o AsNodes(call.new_worker_nodes)]
    IN  IF merged.distributed_strategy = "auto" /\ ~IsNone(merged.head_node)
        THEN [merged EXCEPT
                !.pipeline_parallel_size = Some(TotalNodes(merged)),
                !.tensor_parallel_size = Some(TotalGpus(merged) \div TotalNodes(merged))]
        ELSE merged
ProspectiveInvalid(call) ==
    \/ \E i \in 1..Len(call.new_worker_nodes) : ~HasKeys(call.new_worker_nodes[i])
    \/ ValidateFindings(Prospective(call)).errors # <<>>
SameTopologyAndPlan(c, d) ==
    /\ c.head_node = d.head_node
    /\ c.worker_nodes = d.worker_nodes
    /\ c.pipeline_parallel_size = d.pipeline_parallel_size
    /\ c.tensor_parallel_size = d.tensor_parallel_size

ShutDownState == ~cluster_initialized /\ IsNone(service_handle)

\* C3 as stated: after shutdown was called twice in a row (and on a manager
\* that was never initialized) the manager is shut down: not initialized, no
\* service handle.
CexC3 == (Returned("shutdown") /\ ret.again) => ShutDownState

\* C4 as stated: a shutdown in which a teardown step failed still ends in the
\* shut-down state, the failure only logged.
CexC4 ==
    (Returned("shutdown") /\ "Error during cluster shutdown" \in op_log) => ShutDownState

\* the flags, the launched processes and the configuration of the manager
mgrstate == <<config, service_handle, cluster_initialized, service_process, running>>

\* C15: deploy_service called while _cluster_initialized is False (before a
\* successful initialize_ray_cluster, or after a shutdown that cleared it)
\* returns False with the error logged, launches no process and leaves the
\* manager's state as it was.
ThmC15 ==
    [][(pc = "idle" /\ ~cluster_initialized /\ ret' # ret /\ ret'.op = "deploy_service") =>
          /\ pc' = "idle"
          /\ ~ret'.ok
          /\ "Ray cluster not initialized" \in op_log'
          /\ UNCHANGED mgrstate]_vars

\* deploy_service has been rejected on a manager that was initialized, had
\* deployed once and was shut down
WitC15 ==
    /\ Returned("deploy_service") /\ ~ret.ok
    /\ op_log = {"Ray cluster not initialized"}
    /\ shutdown_completed /\ ~cluster_initialized
    /\ service_process = 1

CexC18 == shutdown_completed => (~cluster_initialized /\ pc # "deploy_wait")

\* C19 as stated: a mutating call that returns while another mutating method
\* of the same manager is in flight was rejected with an operation-in-progress
\* result and changed nothing.
CexC19 ==
    [][(pc # "idle" /\ pc' = pc /\ ret' # ret) =>
          /\ ~ret'.ok
          /\ "Operation in progress" \in op_log'
          /\ UNCHANGED <<mgrstate, ray_initialized>>]_vars

\* C20: when _wait_for_nodes gave up after its timeout with nodes or GPUs
\* missing and no call into Ray raised, initialize_ray_cluster returns True with
\* _cluster_initialized set, the timeout logged as a warning.
ThmC20 ==
    (Returned("initialize_ray_cluster") /\ "Timeout waiting for nodes" \in op_log
       /\ "RayError" \notin op_log) =>
        /\ ret.ok
        /\ cluster_initialized
        /\ "Failed to initialize Ray cluster" \notin op_log

\* initialize_ray_cluster has returned True after the timeout, a node missing
WitC20 ==
    /\ Returned("initialize_ray_cluster") /\ ret.ok /\ cluster_initialized
    /\ "Timeout waiting for nodes" \in op_log
    /\ NodesMissing(Val(config))

BothSet(c) == ~IsNone(c.pipeline_parallel_size) /\ ~IsNone(c.tensor_parallel_size)

InNodeWait == pc \in {"init_wait", "scale_wait"}

\* C22 as stated: a poll loop is left before its timeout only with success
\* (the expected nodes and GPUs are there; the endpoint answered 200) or, for
\* the service, because the process exited; a probe that fails is retried.
CexC22 ==
    [][/\ (InNodeWait /\ elapsed < WaitNodesTimeout /\ NodesMissing(Val(config)))
             => pc' = pc
       /\ (pc = "deploy_wait" /\ elapsed < ServiceReadyTimeout
             /\ service_process \in running)
             => (pc' = pc \/ ret'.ready = "true")]_vars

AllHaveKeys(call) ==
    \A i \in 1..Len(call.new_worker_nodes) : HasKeys(call.new_worker_nodes[i])

CexC24 ==
    (Returned("shutdown") /\ "Error during cluster shutdown" \notin op_log
       /\ service_process # 0 /\ ShutDownState) =>
        (~ray_initialized /\ running = {})

NoGpuFindings(c) ==
    (IF ~IsNone(c.head_node) /\ Val(c.head_node).gpus <= 0
     THEN {Finding("GPU count must be positive", "head", 0, <<>>)} ELSE {})
    \cup {Finding("GPU count must be positive", "worker", i - 1, <<>>) :
            i \in {j \in 1..Len(c.worker_nodes) : c.worker_nodes[j].gpus <= 0}}

\* C26 as stated: the resolver computes a plan for a topology with a node
\* without GPUs, validate reports the GPU-count error for each such node, and
\* the verdict is invalid.
CexC26 ==
    (Validated /\ NoGpuFindings(Val(config)) # {}) =>
        /\ (raw.distributed_strategy = "auto" /\ ~IsNone(raw.head_node)) => BothSet(Val(config))
        /\ NoGpuFindings(Val(config)) \subseteq SeqToSet(errors)
        /\ verdict = "invalid"

\* C28: service_handle is None in every reachable state, so that
\* get_service_metrics and test_generation can only return the 'Service not
\* deployed' error and _health_check False, and shutdown skips serve.shutdown().
ThmC28 ==
    /\ IsNone(service_handle)
    /\ GetServiceMetrics = {"Service not deployed"}
    /\ TestGeneration = {"Service not deployed"}
    /\ HealthCheck = {FALSE}

\* deploy_service has returned True after the endpoint answered 200
WitC28 ==
    /\ Returned("deploy_service") /\ ret.ok /\ ret.ready = "true"
    /\ service_process \in running
    /\ IsNone(service_handle)

\* C29 as stated: every launched process that still runs is the one the
\* manager refers to, so at most one runs.
CexC29 == running \subseteq {service_process}

\* C30 as stated: on a loaded configuration validate_config reports 'GPU count
\* mismatch' exactly when validate reports the PP * TP error.
CexC30 ==
    (Validated /\ "validate_config" \in called) =>
        (HasMsg(issues, "GPU count mismatch")
           <=> HasMsg(errors, "Total GPUs doesn't match PP * TP"))

\* C27: the node wait never runs past 300 s of sleeping in steps of 10 s, the
\* service wait never past 600 s in steps of 30 s, and every method that was
\* called returns.
ThmC27 ==
    /\ [](InNodeWait => (elapsed <= WaitNodesTimeout /\ elapsed % NodePollInterval = 0))
    /\ [](pc = "deploy_wait" =>
            (elapsed <= ServiceReadyTimeout /\ elapsed % ServicePollInterval = 0))
    /\ (pc # "idle") ~> (pc = "idle")

\* both waits have run to their timeout and the methods have returned
WitC27 ==
    /\ Returned("deploy_service")
    /\ "Service readiness timeout" \in op_log
    /\ cluster_initialized

====
